---- MODULE Spec2Model ----
(***************************************************************************)
(* Model of the chess clock of src/script.js: the `state` object, the      *)
(* texts the handlers write to the page, the animation-frame callbacks     *)
(* that are pending, the press of a player button that is under way, and   *)
(* one action per event handler.                                           *)
(*                                                                         *)
(* Every JavaScript function that mutates something is an operator from a  *)
(* world record [state, dom, frames] to the world after the call, so that  *)
(* a handler is the composition of the calls it makes, in source order.    *)
(* CSS class toggles (updateActiveClasses, updateLayoutState,              *)
(* highlightPreset, the reset modal) carry no clock state and are left     *)
(* out, and of the click sound only whether it was played is kept, not the *)
(* rotation of the audio pool.                                             *)
(***************************************************************************)
EXTENDS Integers, Sequences, FiniteSets, TLC

VARIABLES state, dom, frames, now, event, press

vars == <<state, dom, frames, now, event, press>>

(* ---------------------------- bounds ----------------------------------- *)

\* frame timestamps stay at or below MaxNow * TimeUnit milliseconds
MaxNow == 4
\* identifiers requestAnimationFrame may hand out
MaxRafId == 3
\* a turn is passed only while the passing side's time stays within
\* MaxBonus increments above the base time
MaxBonus == 2
\* in the specification with fair frames, the user acts only before the
\* frame clock reaches QuietFrom * TimeUnit milliseconds
QuietFrom == 2

(* ------------------------- values and inputs --------------------------- *)

\* JavaScript null, for activePlayer, lastTick and raf
Null == -1

Sides == {0, 1}

other(p) == IF p = 0 THEN 1 ELSE 0

Max(a, b) == IF a >= b THEN a ELSE b

\* granule of the frame timestamps the model draws, in milliseconds
TimeUnit == 30000

\* how far a frame's timestamp may lie after the previous frame's
Deltas == {0, TimeUnit, 2 * TimeUnit}

presets ==
  [classical |-> [label |-> "Classical", minutes |-> 90, increment |-> 30],
   rapid     |-> [label |-> "Rapid",     minutes |-> 15, increment |-> 10],
   standard  |-> [label |-> "Standard",  minutes |-> 10, increment |-> 0],
   blitz     |-> [label |-> "Blitz",     minutes |-> 5,  increment |-> 3],
   bullet    |-> [label |-> "Bullet",    minutes |-> 1,  increment |-> 1]]

\* data-preset values of the preset buttons that are pressed in the model
PresetInputs == {"bullet", "unknown"}

\* Number(formData.get(..)) of the custom form: a finite number or NaN
NaN == [finite |-> FALSE, value |-> 0]
Num(v) == [finite |-> TRUE, value |-> v]
MinutesInputs == {Num(0), Num(2), NaN}
IncrementInputs == {Num(-5), Num(1), NaN}

(* --------------------------- presentation ------------------------------ *)

padStart2(n) == IF n < 10 THEN "0" \o ToString(n) ELSE ToString(n)

formatTime(ms) ==
  LET totalSeconds == (ms + 999) \div 1000
      minutes == totalSeconds \div 60
      seconds == totalSeconds % 60
  IN ToString(minutes) \o ":" \o padStart2(seconds)

render(w) ==
  [w EXCEPT !.dom.timeText = [idx \in Sides |-> formatTime(w.state.times[idx])]]

setStatus(w, text) == [w EXCEPT !.dom.statusText = text]

setStartPauseText(w, text) == [w EXCEPT !.dom.startPauseText = text]

(* ------------------------- animation frames ---------------------------- *)

\* a frame identifier no pending callback and no stored handle uses
FreshIds(w) == {i \in 1..MaxRafId : i \notin w.frames /\ i # w.state.raf}

requestAnimationFrame(w) ==
  CHOOSE i \in FreshIds(w) : \A j \in FreshIds(w) : i <= j

cancelAnimationFrame(w, id) == [w EXCEPT !.frames = @ \ {id}]

scheduleTick(w) ==
  LET id == requestAnimationFrame(w)
  IN [w EXCEPT !.frames = @ \cup {id}, !.state.raf = id]

(* ----------------------------- the engine ------------------------------ *)

\* stopClock without the cancellation of the pending frame
stopClock_noCancel(w) == [w EXCEPT !.state.running = FALSE]

stopClock(w) ==
  LET w1 == [w EXCEPT !.state.running = FALSE]
  IN IF w1.state.raf # Null
       THEN [cancelAnimationFrame(w1, w1.state.raf) EXCEPT !.state.raf = Null]
       ELSE w1

\* resetClock leaving the tick baseline in place
resetClock_keepsLastTick(w) ==
  LET base == w.state.baseMinutes * 60 * 1000
      w1 == [w EXCEPT !.state.times = [idx \in Sides |-> base],
                      !.state.activePlayer = Null]
  IN setStatus(setStartPauseText(render(w1), "Start"), "Ready")

resetClock(w) ==
  LET base == w.state.baseMinutes * 60 * 1000
      w1 == [w EXCEPT !.state.times = [idx \in Sides |-> base],
                      !.state.activePlayer = Null,
                      !.state.lastTick = Null]
  IN setStatus(setStartPauseText(render(w1), "Start"), "Ready")

confirmReset_keepsRunning(w) == resetClock(w)

confirmReset(w) == resetClock(stopClock(w))

applyPreset_keepsRunning(w, key) ==
  IF key \notin DOMAIN presets THEN w
  ELSE LET preset == presets[key]
           w1 == [w EXCEPT !.state.presetKey = key,
                           !.state.baseMinutes = preset.minutes,
                           !.state.incrementSeconds = preset.increment,
                           !.state.incrementMs = preset.increment * 1000]
       IN setStatus(resetClock(w1), preset.label \o " loaded")

\* applyPreset loading the default control for a key it does not know
applyPreset_defaultsUnknown(w, key) ==
  LET preset == IF key \in DOMAIN presets THEN presets[key] ELSE presets.standard
      w1 == [w EXCEPT !.state.presetKey = key,
                      !.state.baseMinutes = preset.minutes,
                      !.state.incrementSeconds = preset.increment,
                      !.state.incrementMs = preset.increment * 1000]
  IN setStatus(resetClock(stopClock(w1)), preset.label \o " loaded")

applyPreset(w, key) ==
  IF key \notin DOMAIN presets THEN w
  ELSE LET preset == presets[key]
           w1 == [w EXCEPT !.state.presetKey = key,
                           !.state.baseMinutes = preset.minutes,
                           !.state.incrementSeconds = preset.increment,
                           !.state.incrementMs = preset.increment * 1000]
       IN setStatus(resetClock(stopClock(w1)), preset.label \o " loaded")

\* applyCustom without the call of stopClock
applyCustom_keepsRunning(w, minutes, increment) ==
  LET w1 == [w EXCEPT !.state.presetKey = "custom",
                      !.state.baseMinutes = Max(1, minutes),
                      !.state.incrementSeconds = Max(0, increment)]
      w2 == [w1 EXCEPT !.state.incrementMs = w1.state.incrementSeconds * 1000]
  IN setStatus(resetClock(w2), "Custom control loaded")

\* applyCustom taking the form's numbers as they are
applyCustom_noClamp(w, minutes, increment) ==
  LET w1 == [w EXCEPT !.state.presetKey = "custom",
                      !.state.baseMinutes = minutes,
                      !.state.incrementSeconds = increment]
      w2 == [w1 EXCEPT !.state.incrementMs = w1.state.incrementSeconds * 1000]
  IN setStatus(resetClock(stopClock(w2)), "Custom control loaded")

applyCustom(w, minutes, increment) ==
  LET w1 == [w EXCEPT !.state.presetKey = "custom",
                      !.state.baseMinutes = Max(1, minutes),
                      !.state.incrementSeconds = Max(0, increment)]
      w2 == [w1 EXCEPT !.state.incrementMs = w1.state.incrementSeconds * 1000]
  IN setStatus(resetClock(stopClock(w2)), "Custom control loaded")

\* the submit listener of the custom form
submitCustom(w, minutes, increment) ==
  IF minutes.finite /\ increment.finite
    THEN applyCustom(w, minutes.value, increment.value)
    ELSE w

toggleStart_pauseLeavesClock(w) ==
  IF w.state.running
    THEN setStartPauseText(setStatus(w, "Paused"), "Resume")
    ELSE LET w1 == [w EXCEPT !.state.activePlayer =
                                 IF @ = Null THEN 0 ELSE @,
                             !.state.running = TRUE,
                             !.state.lastTick = Null]
         IN scheduleTick(setStatus(setStartPauseText(w1, "Pause"), "Playing"))

toggleStart_keepsLastTick(w) ==
  IF w.state.running
    THEN setStartPauseText(setStatus(stopClock(w), "Paused"), "Resume")
    ELSE LET w1 == [w EXCEPT !.state.activePlayer =
                                 IF @ = Null THEN 0 ELSE @,
                             !.state.running = TRUE]
         IN scheduleTick(setStatus(setStartPauseText(w1, "Pause"), "Playing"))

\* toggleStart handing the move to side 0 on every start
toggleStart_alwaysSide0(w) ==
  IF w.state.running
    THEN setStartPauseText(setStatus(stopClock(w), "Paused"), "Resume")
    ELSE LET w1 == [w EXCEPT !.state.activePlayer = 0,
                             !.state.running = TRUE,
                             !.state.lastTick = Null]
         IN scheduleTick(setStatus(setStartPauseText(w1, "Pause"), "Playing"))

toggleStart(w) ==
  IF w.state.running
    THEN setStartPauseText(setStatus(stopClock(w), "Paused"), "Resume")
    ELSE LET w1 == [w EXCEPT !.state.activePlayer =
                                 IF @ = Null THEN 0 ELSE @,
                             !.state.running = TRUE,
                             !.state.lastTick = Null]
         IN scheduleTick(setStatus(setStartPauseText(w1, "Pause"), "Playing"))

flagPlayer(w, player) ==
  LET loser == IF player = 0 THEN "White" ELSE "Black"
      winner == IF player = 0 THEN "Black" ELSE "White"
      w1 == setStatus(stopClock(w), loser \o " flagged. " \o winner \o " wins.")
  IN setStartPauseText(w1, "Restart")

\* step with the decrement not floored at zero
step_noFloor(w, timestamp) ==
  IF ~w.state.running THEN w
  ELSE LET last == IF w.state.lastTick = Null THEN timestamp
                                              ELSE w.state.lastTick
           delta == timestamp - last
           w1 == [w EXCEPT !.state.lastTick = timestamp]
       IN IF w1.state.activePlayer # Null
            THEN LET player == w1.state.activePlayer
                     w2 == [w1 EXCEPT !.state.times[player] = @ - delta]
                 IN IF w2.state.times[player] = 0
                      THEN flagPlayer(w2, player)
                      ELSE scheduleTick(render(w2))
            ELSE scheduleTick(render(w1))

\* step charging the elapsed time to the side that is waiting
step_chargesWaitingSide(w, timestamp) ==
  IF ~w.state.running THEN w
  ELSE LET last == IF w.state.lastTick = Null THEN timestamp
                                              ELSE w.state.lastTick
           delta == timestamp - last
           w1 == [w EXCEPT !.state.lastTick = timestamp]
       IN IF w1.state.activePlayer # Null
            THEN LET player == other(w1.state.activePlayer)
                     w2 == [w1 EXCEPT !.state.times[player] = Max(0, @ - delta)]
                 IN IF w2.state.times[player] = 0
                      THEN flagPlayer(w2, player)
                      ELSE scheduleTick(render(w2))
            ELSE scheduleTick(render(w1))

\* step that does not schedule the next frame
step_noReschedule(w, timestamp) ==
  IF ~w.state.running THEN w
  ELSE LET last == IF w.state.lastTick = Null THEN timestamp
                                              ELSE w.state.lastTick
           delta == timestamp - last
           w1 == [w EXCEPT !.state.lastTick = timestamp]
       IN IF w1.state.activePlayer # Null
            THEN LET player == w1.state.activePlayer
                     w2 == [w1 EXCEPT !.state.times[player] = Max(0, @ - delta)]
                 IN IF w2.state.times[player] = 0
                      THEN flagPlayer(w2, player)
                      ELSE render(w2)
            ELSE render(w1)

\* the body of the frame callback; the frame that fired is no longer pending
step(w, timestamp) ==
  IF ~w.state.running THEN w
  ELSE LET last == IF w.state.lastTick = Null THEN timestamp
                                              ELSE w.state.lastTick
           delta == timestamp - last
           w1 == [w EXCEPT !.state.lastTick = timestamp]
       IN IF w1.state.activePlayer # Null
            THEN LET player == w1.state.activePlayer
                     w2 == [w1 EXCEPT !.state.times[player] = Max(0, @ - delta)]
                 IN IF w2.state.times[player] = 0
                      THEN flagPlayer(w2, player)
                      ELSE scheduleTick(render(w2))
            ELSE scheduleTick(render(w1))

\* handlePlayerTap crediting the increment to the side that receives the turn
handlePlayerTap_creditsReceiver(w, playerIndex) ==
  IF ~w.state.running \/ w.state.activePlayer # playerIndex THEN w
  ELSE IF w.state.times[playerIndex] = 0 THEN w
  ELSE render([w EXCEPT
         !.state.times[other(playerIndex)] = @ + w.state.incrementMs,
         !.state.activePlayer = IF playerIndex = 0 THEN 1 ELSE 0,
         !.state.lastTick = Null])

\* handlePlayerTap without the check that the clock is running
handlePlayerTap_whilePaused(w, playerIndex) ==
  IF w.state.activePlayer # playerIndex THEN w
  ELSE IF w.state.times[playerIndex] = 0 THEN w
  ELSE render([w EXCEPT
         !.state.times[playerIndex] = @ + w.state.incrementMs,
         !.state.activePlayer = IF playerIndex = 0 THEN 1 ELSE 0,
         !.state.lastTick = Null])

\* handlePlayerTap without the check that the side has time left
handlePlayerTap_afterFlag(w, playerIndex) ==
  IF ~w.state.running \/ w.state.activePlayer # playerIndex THEN w
  ELSE render([w EXCEPT
         !.state.times[playerIndex] = @ + w.state.incrementMs,
         !.state.activePlayer = IF playerIndex = 0 THEN 1 ELSE 0,
         !.state.lastTick = Null])

handlePlayerTap(w, playerIndex) ==
  IF ~w.state.running \/ w.state.activePlayer # playerIndex THEN w
  ELSE IF w.state.times[playerIndex] = 0 THEN w
  ELSE render([w EXCEPT
         !.state.times[playerIndex] = @ + w.state.incrementMs,
         !.state.activePlayer = IF playerIndex = 0 THEN 1 ELSE 0,
         !.state.lastTick = Null])

\* swapPlayers exchanging the times without flipping the active side
swapPlayers_keepsActive(w) ==
  render([w EXCEPT !.state.times = [idx \in Sides |-> w.state.times[other(idx)]]])

\* whether the pointerdown listener plays the click sound
handlePlayerTapStart(w, playerIndex) ==
  IF ~w.state.running \/ w.state.activePlayer # playerIndex THEN FALSE
  ELSE TRUE

swapPlayers(w) ==
  LET w1 == [w EXCEPT !.state.times = [idx \in Sides |-> w.state.times[other(idx)]]]
      w2 == IF w1.state.activePlayer # Null
              THEN [w1 EXCEPT !.state.activePlayer = IF @ = 0 THEN 1 ELSE 0]
              ELSE w1
  IN render(w2)

(* --------------------------- the state machine ------------------------- *)

World == [state |-> state, dom |-> dom, frames |-> frames]

\* no player button is held down
NoPress == [side |-> Null, sound |-> FALSE]

\* the handler named name, called with arg, took the world to w
Becomes(w, name, arg) ==
  /\ state' = w.state
  /\ dom' = w.dom
  /\ frames' = w.frames
  /\ event' = [name |-> name, arg |-> arg]

\* the `state` literal and the page before init() runs
Loaded ==
  [state |-> [baseMinutes |-> presets.rapid.minutes,
              incrementSeconds |-> presets.rapid.increment,
              times |-> [idx \in Sides |-> 0],
              incrementMs |-> presets.rapid.increment * 1000,
              activePlayer |-> Null,
              running |-> FALSE,
              lastTick |-> Null,
              raf |-> Null,
              presetKey |-> "rapid"],
   dom |-> [timeText |-> [idx \in Sides |-> ""],
            statusText |-> "",
            startPauseText |-> ""],
   frames |-> {}]

\* init(): applyPreset(state.presetKey), then render()
Init ==
  LET w == render(applyPreset(Loaded, Loaded.state.presetKey))
  IN /\ state = w.state
     /\ dom = w.dom
     /\ frames = w.frames
     /\ now = 0
     /\ event = [name |-> "init", arg |-> Null]
     /\ press = NoPress

ClickPreset ==
  /\ press = NoPress
  /\ UNCHANGED press
  /\ \E key \in PresetInputs :
    /\ Becomes(applyPreset(World, key), "applyPreset", key)
    /\ UNCHANGED now

SubmitCustom ==
  /\ press = NoPress
  /\ UNCHANGED press
  /\ \E minutes \in MinutesInputs, increment \in IncrementInputs :
    /\ Becomes(submitCustom(World, minutes, increment), "submitCustom",
               [minutes |-> minutes, increment |-> increment])
    /\ UNCHANGED now

ClickStartPause ==
  /\ press = NoPress
  /\ UNCHANGED press
  /\ FreshIds(World) # {}
  /\ Becomes(toggleStart(World), "toggleStart", Null)
  /\ UNCHANGED now

ClickConfirmReset ==
  /\ press = NoPress
  /\ UNCHANGED press
  /\ Becomes(confirmReset(World), "confirmReset", Null)
  /\ UNCHANGED now

ClickSwap ==
  /\ press = NoPress
  /\ UNCHANGED press
  /\ Becomes(swapPlayers(World), "swapPlayers", Null)
  /\ UNCHANGED now

\* a player button is pressed down: the pointerdown listener runs
PointerDown ==
  \E playerIndex \in Sides :
    /\ press = NoPress
    /\ press' = [side |-> playerIndex,
                 sound |-> handlePlayerTapStart(World, playerIndex)]
    /\ Becomes(World, "handlePlayerTapStart", playerIndex)
    /\ UNCHANGED now

\* the button held down is released on it: the click listener runs
ClickPlayer ==
  \E playerIndex \in Sides :
    /\ press.side = playerIndex
    /\ press' = NoPress
    /\ state.times[playerIndex] + state.incrementMs
         <= state.baseMinutes * 60 * 1000 + MaxBonus * state.incrementMs
    /\ Becomes(handlePlayerTap(World, playerIndex), "handlePlayerTap", playerIndex)
    /\ UNCHANGED now

\* the browser runs a pending frame callback, passing the frame's timestamp
Frame ==
  \E id \in frames, delta \in Deltas :
    LET timestamp == now + delta
        fired == [World EXCEPT !.frames = @ \ {id}]
    IN /\ timestamp <= MaxNow * TimeUnit
       /\ FreshIds(fired) # {}
       /\ now' = timestamp
       /\ Becomes(step(fired, timestamp), "step", Null)
       /\ UNCHANGED press

Next ==
  \/ ClickPreset
  \/ SubmitCustom
  \/ ClickStartPause
  \/ ClickConfirmReset
  \/ ClickSwap
  \/ PointerDown
  \/ ClickPlayer
  \/ Frame

Spec == Init /\ [][Next]_vars

(* ------------- frames that keep firing, user that falls silent --------- *)

\* the most a side can hold: the largest control loaded in the model is the
\* initial one, and a side gains at most MaxBonus increments
MaxRemaining ==
  presets.rapid.minutes * 60 * 1000 + MaxBonus * presets.rapid.increment * 1000

\* late enough for the frames after the last input to run any clock down
LiveMaxNow == QuietFrom * TimeUnit + MaxRemaining + 4 * TimeUnit

\* a pending frame callback runs with a timestamp after the previous frame's
LiveFrame ==
  \E id \in frames, delta \in Deltas \ {0} :
    \E fired \in {[World EXCEPT !.frames = @ \ {id}]} :
      \E w \in {step(fired, now + delta)} :
        /\ now + delta <= LiveMaxNow
        /\ FreshIds(fired) # {}
        /\ now' = now + delta
        /\ Becomes(w, "step", Null)
        /\ UNCHANGED press

UserActs ==
  /\ now < QuietFrom * TimeUnit
  /\ \/ ClickPreset
     \/ SubmitCustom
     \/ ClickStartPause
     \/ ClickConfirmReset
     \/ ClickSwap
     \/ PointerDown
     \/ ClickPlayer

LiveNext ==
  \/ UserActs
  \/ LiveFrame

\* requestAnimationFrame runs every callback it was given
LiveSpec == Init /\ [][LiveNext]_vars /\ WF_vars(LiveFrame)

(* ------------------------------ properties ----------------------------- *)

\* the handlers that reload the clock: reset and the two time-control loaders
Reloads == {"confirmReset", "applyPreset", "submitCustom"}

\* the active side has no time left
ActiveAtZero ==
  /\ state.activePlayer # Null
  /\ state.times[state.activePlayer] = 0

\* a side has flagged and the clock is stopped
Flagged == ~state.running /\ ActiveAtZero

\* the pending frame callback is the first one since lastTick was cleared
FirstTickPending ==
  /\ state.running
  /\ (state.lastTick = Null \/ event.name = "toggleStart")

\* C1: in every reachable state both remaining times are at least 0.
C1_TimesNonNegative ==
  /\ state.times[0] >= 0
  /\ state.times[1] >= 0

\* a tick has brought the active side's time down to 0
C1_Witness ==
  /\ event.name = "step"
  /\ ActiveAtZero
  /\ state.times[other(state.activePlayer)] > 0

\* C2: a tick that brings the active side's time to exactly 0 stops the
\* clock with that side still active; from then on, unless the clock is
\* reloaded, the active side stays at 0 and no tick changes either time.
C2_FlagExactness ==
  [][/\ (/\ event'.name = "step"
         /\ state.activePlayer # Null
         /\ state.times[state.activePlayer] > 0
         /\ state'.times[state.activePlayer] = 0)
        => (~state'.running /\ state'.activePlayer = state.activePlayer)
     /\ (ActiveAtZero /\ event'.name \notin Reloads)
        => (ActiveAtZero' /\ (event'.name = "step" => state'.times = state.times))
    ]_vars

\* after a flag the clock was started again, so that a further tick is due
C2_Witness ==
  /\ event.name = "toggleStart"
  /\ state.running
  /\ ActiveAtZero
  /\ frames # {}

\* C3: once a side has flagged, running stays false until the clock is
\* reloaded by reset or by a time control.
C3_FlaggedIsTerminal ==
  [][(Flagged /\ event'.name \notin Reloads) => ~state'.running]_vars

\* C4: whenever running is true, activePlayer is not null.
C4_RunningHasActiveSide ==
  state.running => state.activePlayer \in Sides

\* a time control was loaded over a clock that had been started
C4_Witness ==
  /\ event.name = "applyPreset"
  /\ now > 0
  /\ ~state.running
  /\ state.activePlayer = Null

\* C5: from the return of pause until the next start or reload, neither
\* remaining time is decremented: a swap exchanges them and nothing else
\* changes them, whatever frame callback was pending when pause was called.
C5_PausedNoDecrement ==
  [][(dom.statusText = "Paused" /\ dom'.statusText = "Paused")
       => \/ state'.times = state.times
          \/ /\ event'.name = "swapPlayers"
             /\ state'.times = [idx \in Sides |-> state.times[other(idx)]]
    ]_vars

\* pause has returned on a clock whose ticks had been running
C5_Witness ==
  /\ event.name = "toggleStart"
  /\ dom.statusText = "Paused"
  /\ ~state.running
  /\ state.lastTick # Null
  /\ frames = {}

\* C6: a turn passed by the active side with time left, while running,
\* credits incrementMs to that side, makes the other side active, clears
\* lastTick and leaves the other side's time and running unchanged.
C6_PassTurnCreditsPasser ==
  [][(/\ event'.name = "handlePlayerTap"
      /\ state.running
      /\ state.activePlayer = event'.arg
      /\ state.times[event'.arg] > 0)
       => /\ state'.times[event'.arg] = state.times[event'.arg] + state.incrementMs
          /\ state'.times[other(event'.arg)] = state.times[other(event'.arg)]
          /\ state'.activePlayer = other(event'.arg)
          /\ state'.lastTick = Null
          /\ state'.running = state.running
    ]_vars

\* a side has passed the turn and holds more than the base time
C6_Witness ==
  /\ event.name = "handlePlayerTap"
  /\ state.running
  /\ state.activePlayer = other(event.arg)
  /\ state.lastTick = Null
  /\ state.incrementMs > 0
  /\ state.times[event.arg] = state.baseMinutes * 60 * 1000 + state.incrementMs

\* C7: a turn pass while not running, by the side that is not active, or by
\* a side with no time left changes nothing of the clock.
C7_PassTurnIgnored ==
  [][(/\ event'.name = "handlePlayerTap"
      /\ \/ ~state.running
         \/ state.activePlayer # event'.arg
         \/ state.times[event'.arg] = 0)
       => /\ state'.times = state.times
          /\ state'.activePlayer = state.activePlayer
          /\ state'.running = state.running
          /\ state'.incrementMs = state.incrementMs
          /\ state'.lastTick = state.lastTick
    ]_vars

\* the active side pressed while the clock was paused
C7_Witness ==
  /\ event.name = "handlePlayerTap"
  /\ ~state.running
  /\ dom.statusText = "Paused"
  /\ state.activePlayer = event.arg
  /\ state.times[event.arg] > 0

\* C8 as stated: between two running states only a turn pass changes
\* activePlayer.
C8_OnlyPassTurnChangesActive ==
  [][(/\ state.running
      /\ state'.running
      /\ state'.activePlayer # state.activePlayer)
       => event'.name = "handlePlayerTap"
    ]_vars

\* C8 amended: between two running states activePlayer changes only by a
\* turn pass or by a swap; a tick never changes it.
C8_PassTurnOrSwapChangesActive ==
  [][(/\ state.running
      /\ state'.running
      /\ state'.activePlayer # state.activePlayer)
       => event'.name \in {"handlePlayerTap", "swapPlayers"}
    ]_vars

\* the sides were swapped while the clock was running
C8_Witness ==
  /\ event.name = "swapPlayers"
  /\ state.running
  /\ state.activePlayer = 1
  /\ state.times[1] < state.times[0]

\* C9: the first tick after a start, a resume or a turn pass sets lastTick
\* to its timestamp and changes neither remaining time, however long ago
\* the previous tick was.
C9_FirstTickIsBaseline ==
  [][(event'.name = "step" /\ FirstTickPending)
       => /\ state'.times = state.times
          /\ state'.lastTick = now'
    ]_vars

\* side 0 used some time and passed the turn; the tick that followed left
\* side 1 with its full time
C9_Witness ==
  /\ event.name = "step"
  /\ state.running
  /\ state.lastTick = now
  /\ state.activePlayer = 1
  /\ state.incrementMs > 0
  /\ state.times[1] = state.baseMinutes * 60 * 1000
  /\ state.times[0] = state.baseMinutes * 60 * 1000 - TimeUnit + state.incrementMs

\* C10: a tick with a baseline, while running, sets the active side's time
\* to max(0, time - (timestamp - lastTick)), which is no more than before,
\* and leaves the other side's time unchanged.
C10_TickChargesActiveOnly ==
  [][(/\ event'.name = "step"
      /\ state.running
      /\ ~FirstTickPending
      /\ state.activePlayer # Null)
       => LET a == state.activePlayer
          IN /\ state'.times[a] = Max(0, state.times[a] - (now' - state.lastTick))
             /\ state'.times[a] <= state.times[a]
             /\ state'.times[other(a)] = state.times[other(a)]
    ]_vars

\* a tick has charged the active side and the clock runs on
C10_Witness ==
  /\ event.name = "step"
  /\ state.running
  /\ state.times[state.activePlayer] < state.baseMinutes * 60 * 1000
  /\ state.times[state.activePlayer] > 0
  /\ state.times[other(state.activePlayer)] >= state.baseMinutes * 60 * 1000

\* st and fr are the clock as resetClock leaves it for a base of minutes,
\* with nothing scheduled
FreshClock(st, fr, minutes) ==
  /\ st.times[0] = minutes * 60000
  /\ st.times[1] = minutes * 60000
  /\ st.activePlayer = Null
  /\ ~st.running
  /\ st.lastTick = Null
  /\ fr = {}

\* C11: after a known preset (t minutes, i seconds) or a custom control with
\* finite t >= 1 and i >= 0 is applied, from any state, both times are
\* t*60000, incrementMs is i*1000, no side is active, the clock is not
\* running, lastTick is null and no frame callback is pending.
C11_ApplyTimeControlResets ==
  [][/\ (event'.name = "applyPreset" /\ event'.arg \in DOMAIN presets)
        => /\ FreshClock(state', frames', presets[event'.arg].minutes)
           /\ state'.incrementMs = presets[event'.arg].increment * 1000
     /\ (/\ event'.name = "submitCustom"
         /\ event'.arg.minutes.finite
         /\ event'.arg.increment.finite
         /\ event'.arg.minutes.value >= 1
         /\ event'.arg.increment.value >= 0)
        => /\ FreshClock(state', frames', event'.arg.minutes.value)
           /\ state'.incrementMs = event'.arg.increment.value * 1000
    ]_vars

\* a custom control of 2 minutes + 1 second was applied over a clock that
\* had been ticking
C11_Witness ==
  /\ event.name = "submitCustom"
  /\ event.arg.minutes = Num(2)
  /\ event.arg.increment = Num(1)
  /\ now > 0
  /\ state.times[0] = 120000
  /\ state.incrementMs = 1000
  /\ frames = {}

\* C12: incrementMs and baseMinutes change only when a preset with a known
\* key or a custom control is applied, and a step that changes incrementMs
\* ends with both times at the base, no active side and the clock stopped.
C12_IncrementOnlyByTimeControl ==
  [][/\ (\/ event'.name \notin {"applyPreset", "submitCustom"}
         \/ (event'.name = "applyPreset" /\ event'.arg \notin DOMAIN presets))
        => /\ state'.incrementMs = state.incrementMs
           /\ state'.baseMinutes = state.baseMinutes
     /\ (state'.incrementMs # state.incrementMs)
        => /\ state'.times[0] = state'.baseMinutes * 60000
           /\ state'.times[1] = state'.baseMinutes * 60000
           /\ state'.activePlayer = Null
           /\ ~state'.running
    ]_vars

\* an unknown preset key was pressed while the clock was running
C12_Witness ==
  /\ event.name = "applyPreset"
  /\ event.arg = "unknown"
  /\ state.running
  /\ state.lastTick # Null

\* C13: reset stops the clock, puts both times at baseMinutes*60000 of the
\* control in force, clears activePlayer and lastTick and leaves no frame
\* callback pending.
C13_ResetRestoresBase ==
  [][event'.name = "confirmReset"
       => /\ state'.baseMinutes = state.baseMinutes
          /\ FreshClock(state', frames', state.baseMinutes)
    ]_vars

\* reset was confirmed on a clock that had been charged after a custom
\* control was loaded
C13_Witness ==
  /\ event.name = "confirmReset"
  /\ state.presetKey = "custom"
  /\ now > 0
  /\ dom.statusText = "Ready"
  /\ state.times[0] = state.baseMinutes * 60000

\* C14: swap exchanges the two times, flips activePlayer unless it is null,
\* leaves running and incrementMs alone, so the active clock shows the same
\* time before and after.
C14_SwapExchanges ==
  [][event'.name = "swapPlayers"
       => /\ state'.times[0] = state.times[1]
          /\ state'.times[1] = state.times[0]
          /\ state'.activePlayer =
               (IF state.activePlayer = Null THEN Null
                ELSE 1 - state.activePlayer)
          /\ state'.running = state.running
          /\ state'.incrementMs = state.incrementMs
          /\ (state.activePlayer # Null
                => state'.times[state'.activePlayer] = state.times[state.activePlayer])
    ]_vars

\* the scenario of the specification: [910000, 900000] with side 1 active
\* was swapped
C14_Witness ==
  /\ event.name = "swapPlayers"
  /\ state.running
  /\ state.activePlayer = 0
  /\ state.times[0] = 900000
  /\ state.times[1] = 910000

\* C15: the toggle on a stopped clock sets running, clears lastTick and
\* schedules exactly one frame callback; activePlayer becomes 0 if it was
\* null and is kept otherwise, and neither time changes.
C15_StartSchedules ==
  [][(event'.name = "toggleStart" /\ ~state.running)
       => /\ state'.running
          /\ state'.lastTick = Null
          /\ state'.raf # Null
          /\ frames' = frames \cup {state'.raf}
          /\ state'.raf \notin frames
          /\ state'.activePlayer =
               (IF state.activePlayer = Null THEN 0 ELSE state.activePlayer)
          /\ state'.times = state.times
    ]_vars

\* the clock was resumed with side 1 to move
C15_Witness ==
  /\ event.name = "toggleStart"
  /\ state.running
  /\ state.activePlayer = 1
  /\ state.lastTick = Null
  /\ frames # {}

\* C16: a custom control with finite numbers is applied with the minutes
\* raised to at least 1 and the increment to at least 0; a submission with
\* a number that is not finite changes nothing.
C16_CustomIsClamped ==
  [][event'.name = "submitCustom"
       => IF event'.arg.minutes.finite /\ event'.arg.increment.finite
            THEN /\ state'.baseMinutes =
                      (IF event'.arg.minutes.value < 1 THEN 1
                       ELSE event'.arg.minutes.value)
                 /\ state'.incrementSeconds =
                      (IF event'.arg.increment.value < 0 THEN 0
                       ELSE event'.arg.increment.value)
                 /\ state'.incrementMs = state'.incrementSeconds * 1000
                 /\ state'.presetKey = "custom"
            ELSE /\ state' = state
                 /\ dom' = dom
                 /\ frames' = frames
    ]_vars

\* minutes below 1 and a negative increment were submitted
C16_Witness ==
  /\ event.name = "submitCustom"
  /\ event.arg.minutes = Num(0)
  /\ event.arg.increment = Num(-5)
  /\ state.baseMinutes = 1
  /\ state.incrementSeconds = 0
  /\ state.times[0] = 60000

\* C17: at most one frame callback is pending, and one is pending exactly
\* when the clock is running.
C17_OnePendingIffRunning ==
  /\ Cardinality(frames) <= 1
  /\ (frames # {}) <=> state.running

\* the clock was paused and resumed, and a tick has rescheduled itself
C17_Witness ==
  /\ event.name = "step"
  /\ state.running
  /\ dom.startPauseText = "Pause"
  /\ frames = {state.raf}
  /\ state.raf > 1

\* C18: the text shown for each side is the formatted value of its
\* remaining time.
C18_DisplayMatchesTimes ==
  \A idx \in Sides : dom.timeText[idx] = formatTime(state.times[idx])

\* C19: a press whose pointerdown played the click sound passes the turn:
\* its click credits the increment to the pressing side and makes the
\* other side active.
C19_SoundOnlyForPassedTurn ==
  [][(event'.name = "handlePlayerTap" /\ press.sound)
       => /\ state'.times[event'.arg] = state.times[event'.arg] + state.incrementMs
          /\ state'.activePlayer = other(event'.arg)
    ]_vars

\* C20: once the user has fallen silent with the clock running, frames with
\* increasing timestamps bring the active side to 0: the clock stops with
\* that side flagged and no frame callback scheduled.
C20_RunningClockFlags ==
  (state.running /\ now >= QuietFrom * TimeUnit) ~> (Flagged /\ frames = {})

\* the silent phase ended in a flag, reached by frames alone
C20_Witness ==
  /\ event.name = "step"
  /\ Flagged
  /\ frames = {}
  /\ now > QuietFrom * TimeUnit + state.baseMinutes * 60 * 1000 - 1

====
